---- MODULE Spec2Model ----
(***************************************************************************)
(* Model of logic_plugin_manager's category stores:                        *)
(*   tags/musicapps.py  Tagpool, Properties, MusicApps                     *)
(*   tags/category.py   Category                                           *)
(*                                                                         *)
(* A category path (a Python str) is modelled by the list str.split(":")   *)
(* gives for it: a non-empty sequence of colon-free segments.  The root    *)
(* path "" is <<"">>, "A" is <<"A">>, "A:B" is <<"A", "B">>.               *)
(*                                                                         *)
(* A plist dictionary is modelled by a function whose DOMAIN is the key    *)
(* set of the dictionary.  A Python list is modelled by a sequence; list   *)
(* indices in the definitions below are Python's (0-based).                *)
(***************************************************************************)
EXTENDS Integers, Sequences, FiniteSets, TLC

VARIABLES
    tagpoolFile,   \* contents of <tags_root>/MusicApps.tagpool (dict path -> count)
    propsFile,     \* contents of <tags_root>/MusicApps.properties (dict)
    categories,    \* MusicApps.tagpool.categories (in memory)
    raw_data,      \* MusicApps.properties.__raw_data (in memory)
    tagsetFile,    \* contents of one component's .tagset file (dict)
    tagset,        \* the Tagset object read from it (in memory)
    writers,       \* the mutators running against the store files, each with its progress
    last           \* the last call made: operation, arguments, outcome, stores before it

vars == <<tagpoolFile, propsFile, categories, raw_data, tagsetFile, tagset, writers, last>>

----------------------------------------------------------------------------
(* Bounds *)

MaxSteps == 3      \* integer arguments (steps, index) range over -MaxSteps..MaxSteps
MaxCount == 1      \* plugin counts range over 0..MaxCount
MaxOrderLen == 2   \* longest sequence handed to set_order

----------------------------------------------------------------------------
(* Paths *)

Root == <<"">>
PA == <<"A">>
PB == <<"B">>
PAB == <<"A", "B">>

NonePath == <<>>                   \* Python's None where a path is expected
Names == {PA, PB, PAB}             \* non-root paths
Paths == {Root} \cup Names

Ints == (0 - MaxSteps)..MaxSteps
Counts == 0..MaxCount

----------------------------------------------------------------------------
(* Python built-ins used by the code *)

Max(a, b) == IF a >= b THEN a ELSE b
Min(a, b) == IF a <= b THEN a ELSE b

Range(s) == {s[i] : i \in 1..Len(s)}

\* x in list
In(x, s) == x \in Range(s)

\* list.index(x): 0-based position of the first occurrence (x is in s)
index(s, x) == (CHOOSE i \in 1..Len(s) : s[i] = x /\ \A j \in 1..(i - 1) : s[j] # x) - 1

\* list.pop(i) for a valid 0-based i: the list without that element
pop(s, i) == [j \in 1..(Len(s) - 1) |-> IF j <= i THEN s[j] ELSE s[j + 1]]

\* list.remove(x): drops the first occurrence (x is in s)
remove(s, x) == pop(s, index(s, x))

\* list.insert(i, x): a negative i counts from the end, and the position is
\* then limited to 0..len(s)
insert(s, i, x) ==
    LET w == IF i < 0 THEN i + Len(s) ELSE i
        k == IF w < 0 THEN 0 ELSE IF w > Len(s) THEN Len(s) ELSE w
    IN  [j \in 1..(Len(s) + 1) |-> IF j <= k THEN s[j] ELSE IF j = k + 1 THEN x ELSE s[j - 1]]

\* dict operations
EmptyDict == [k \in {} |-> 0]
DictSet(d, k, v) == [j \in (DOMAIN d) \cup {k} |-> IF j = k THEN v ELSE d[j]]
DictPop(d, k) == [j \in (DOMAIN d) \ {k} |-> d[j]]

\* str < str on paths: segment-wise comparison; the segments used are "",
\* "A", "B", whose order as strings is the order of their ranks here, and
\* ":" sorts below every letter, so a proper prefix sorts first
SegRank(seg) == IF seg = "" THEN 0 ELSE IF seg = "A" THEN 1 ELSE 2

RECURSIVE StrLess(_, _)
StrLess(p, q) ==
    IF Len(p) = 0 THEN Len(q) > 0
    ELSE IF Len(q) = 0 THEN FALSE
    ELSE IF SegRank(Head(p)) # SegRank(Head(q)) THEN SegRank(Head(p)) < SegRank(Head(q))
    ELSE StrLess(Tail(p), Tail(q))

\* list.sort(reverse=reverse) with no key: a stable sort
RECURSIVE sorted(_, _)
sorted(s, reverse) ==
    IF Len(s) = 0 THEN <<>>
    ELSE LET x == s[Len(s)]
             front == sorted(SubSeq(s, 1, Len(s) - 1), reverse)
             before(y) == IF reverse THEN ~ StrLess(y, x) ELSE ~ StrLess(x, y)
             k == Cardinality({i \in 1..Len(front) : before(front[i])})
         IN  insert(front, k, x)

----------------------------------------------------------------------------
(* Results of a call: the exception it raised ("none" when it returned)    *)
(* and the file contents it leaves.                                        *)

Ok(data) == [exc |-> "none", data |-> data]
Raise(e, data) == [exc |-> e, data |-> data]

----------------------------------------------------------------------------
(* Tagpool (musicapps.py).  Each operation starts with self.load(), so it  *)
(* works on the file's contents f; the result's data is the file it leaves.*)

\* Tagpool.write_category(name, plugin_count)
Tagpool_write_category(f, name, plugin_count) == Ok(DictSet(f, name, plugin_count))

\* Tagpool.introduce_category that writes the count 0 over an existing key
Tagpool_introduce_category_overwrite(f, name) == Tagpool_write_category(f, name, 0)

\* Tagpool.introduce_category(name)
Tagpool_introduce_category(f, name) ==
    IF name \in DOMAIN f THEN Ok(f) ELSE Tagpool_write_category(f, name, 0)

\* Tagpool.remove_category that saves the dict without removing the key
Tagpool_remove_category_keep(f, name) == Ok(f)

\* Tagpool.remove_category(name): categories.pop(name, None)
Tagpool_remove_category(f, name) == Ok(DictPop(f, name))

----------------------------------------------------------------------------
(* Properties (musicapps.py).  r is the dict read from the file by the     *)
(* load() every operation starts with.                                     *)

\* Properties.load: sorting = raw_data.get("sorting", [])
get_sorting(r) == IF "sorting" \in DOMAIN r THEN r["sorting"] ELSE <<>>

\* Properties.load: user_sorted = bool(raw_data.get("user_sorted", False));
\* the only value the code writes is the non-empty string "property"
get_user_sorted(r) == IF "user_sorted" \in DOMAIN r THEN r["user_sorted"] # "" ELSE FALSE

\* raw_data["sorting"] = sorting
set_sorting(r, sorting) == DictSet(r, "sorting", sorting)

\* Properties.introduce_category(name)
Properties_introduce_category(r, name) ==
    IF In(name, get_sorting(r)) THEN Ok(r)
    ELSE IF "sorting" \notin DOMAIN r THEN Raise("KeyError", r)
    ELSE Ok(set_sorting(r, Append(r["sorting"], name)))

\* Properties.enable_user_sorting(): raw_data["user_sorted"] = "property"
Properties_enable_user_sorting(r) == Ok(DictSet(r, "user_sorted", "property"))

\* Properties.enable_alphabetical_sorting(): del raw_data["user_sorted"]
Properties_enable_alphabetical_sorting(r) ==
    IF "user_sorted" \notin DOMAIN r THEN Raise("KeyError", r)
    ELSE Ok(DictPop(r, "user_sorted"))

\* Properties.remove_category that ignores a name which is not listed
Properties_remove_category_silent(r, name) ==
    IF "sorting" \notin DOMAIN r THEN Raise("KeyError", r)
    ELSE IF ~ In(name, r["sorting"]) THEN Ok(r)
    ELSE Ok(set_sorting(r, remove(r["sorting"], name)))

\* Properties.remove_category(name)
Properties_remove_category(r, name) ==
    IF "sorting" \notin DOMAIN r THEN Raise("KeyError", r)
    ELSE IF ~ In(name, r["sorting"]) THEN Raise("ValueError", r)
    ELSE Ok(set_sorting(r, remove(r["sorting"], name)))

\* Properties.move_up(category, steps)
Properties_move_up(r, category, steps) ==
    LET sorting == get_sorting(r) IN
    IF ~ In(category, sorting) THEN Raise("ValueError", r)
    ELSE LET current_idx == index(sorting, category)
             new_idx == Max(0, current_idx - steps)
         IN  Ok(set_sorting(r, insert(pop(sorting, current_idx), new_idx, category)))

\* Properties.move_down(category, steps)
Properties_move_down(r, category, steps) ==
    LET sorting == get_sorting(r) IN
    IF ~ In(category, sorting) THEN Raise("ValueError", r)
    ELSE LET current_idx == index(sorting, category)
             new_idx == Min(Len(sorting) - 1, current_idx + steps)
         IN  Ok(set_sorting(r, insert(pop(sorting, current_idx), new_idx, category)))

\* Properties.move_to_top(category)
Properties_move_to_top(r, category) ==
    LET sorting == get_sorting(r) IN
    IF ~ In(category, sorting) THEN Raise("ValueError", r)
    ELSE Ok(set_sorting(r, insert(remove(sorting, category), 0, category)))

\* Properties.move_to_bottom(category)
Properties_move_to_bottom(r, category) ==
    LET sorting == get_sorting(r) IN
    IF ~ In(category, sorting) THEN Raise("ValueError", r)
    ELSE Ok(set_sorting(r, Append(remove(sorting, category), category)))

\* Properties.move_before(category, target)
Properties_move_before(r, category, target) ==
    LET sorting == get_sorting(r) IN
    IF ~ In(category, sorting) THEN Raise("ValueError", r)
    ELSE IF ~ In(target, sorting) THEN Raise("ValueError", r)
    ELSE LET removed == remove(sorting, category) IN
         \* sorting.index(target) after the removal raises when the only
         \* occurrence of target was the one removed
         IF ~ In(target, removed) THEN Raise("ValueError", r)
         ELSE Ok(set_sorting(r, insert(removed, index(removed, target), category)))

\* Properties.move_after that takes target's index before removing category
Properties_move_after_stale(r, category, target) ==
    LET sorting == get_sorting(r) IN
    IF ~ In(category, sorting) THEN Raise("ValueError", r)
    ELSE IF ~ In(target, sorting) THEN Raise("ValueError", r)
    ELSE Ok(set_sorting(r, insert(remove(sorting, category), index(sorting, target) + 1, category)))

\* Properties.move_after(category, target)
Properties_move_after(r, category, target) ==
    LET sorting == get_sorting(r) IN
    IF ~ In(category, sorting) THEN Raise("ValueError", r)
    ELSE IF ~ In(target, sorting) THEN Raise("ValueError", r)
    ELSE LET removed == remove(sorting, category) IN
         IF ~ In(target, removed) THEN Raise("ValueError", r)
         ELSE Ok(set_sorting(r, insert(removed, index(removed, target) + 1, category)))

\* Properties.move_to_index without the wrap of a negative index
Properties_move_to_index_nowrap(r, category, idx) ==
    LET sorting == get_sorting(r) IN
    IF ~ In(category, sorting) THEN Raise("ValueError", r)
    ELSE LET clamped == Max(0, Min(Len(sorting) - 1, idx))
         IN  Ok(set_sorting(r, insert(remove(sorting, category), clamped, category)))

\* Properties.move_to_index(category, index)
Properties_move_to_index(r, category, idx) ==
    LET sorting == get_sorting(r) IN
    IF ~ In(category, sorting) THEN Raise("ValueError", r)
    ELSE LET wrapped == IF idx < 0 THEN Len(sorting) + idx ELSE idx
             clamped == Max(0, Min(Len(sorting) - 1, wrapped))
         IN  Ok(set_sorting(r, insert(remove(sorting, category), clamped, category)))

\* Properties.swap that moves category1 to category2's place instead of
\* exchanging the two
Properties_swap_move(r, category1, category2) ==
    LET sorting == get_sorting(r) IN
    IF ~ In(category1, sorting) \/ ~ In(category2, sorting) THEN Raise("ValueError", r)
    ELSE Ok(set_sorting(r, insert(remove(sorting, category1), index(sorting, category2), category1)))

\* Properties.swap(category1, category2)
Properties_swap(r, category1, category2) ==
    LET sorting == get_sorting(r) IN
    IF ~ In(category1, sorting) \/ ~ In(category2, sorting) THEN Raise("ValueError", r)
    ELSE LET idx1 == index(sorting, category1)
             idx2 == index(sorting, category2)
         IN  Ok(set_sorting(r, [j \in 1..Len(sorting) |->
                                   IF j = idx1 + 1 THEN sorting[idx2 + 1]
                                   ELSE IF j = idx2 + 1 THEN sorting[idx1 + 1]
                                   ELSE sorting[j]]))

\* Properties.set_order(categories)
Properties_set_order(r, cats) ==
    LET current == Range(get_sorting(r))
        new == Range(cats)
    IN  IF new # current THEN Raise("ValueError", r)
        ELSE Ok(set_sorting(r, cats))

\* Properties.reorder(key_func=None, reverse)
Properties_reorder(r, reverse) == Ok(set_sorting(r, sorted(get_sorting(r), reverse)))

\* Properties.get_index(category) on the loaded sorting (category is listed)
get_index(sorting, category) == index(sorting, category)

\* Properties.get_neighbors(category) on the loaded sorting: the pair
\* (previous, next), None where there is none
Properties_get_neighbors(sorting, category) ==
    IF ~ In(category, sorting) THEN [exc |-> "ValueError", ret |-> <<>>]
    ELSE LET idx == get_index(sorting, category)
             prev_cat == IF idx > 0 THEN sorting[(idx - 1) + 1] ELSE NonePath
             next_cat == IF idx < Len(sorting) - 1 THEN sorting[(idx + 1) + 1] ELSE NonePath
         IN [exc |-> "none", ret |-> <<prev_cat, next_cat>>]

----------------------------------------------------------------------------
(* MusicApps (musicapps.py) and Category (category.py) work on the two     *)
(* files and on the objects a MusicApps holds in memory.  A world w is     *)
(* [tagpoolFile, propsFile, categories, raw_data]; an operation on a world *)
(* gives [exc, w]: the exception raised and the world it leaves.           *)

World == [tagpoolFile |-> tagpoolFile, propsFile |-> propsFile,
          categories |-> categories, raw_data |-> raw_data]

\* a Tagpool operation run by the MusicApps' tagpool object: its load()
\* calls leave categories equal to the file
OnTagpool(w, res) ==
    [exc |-> res.exc, w |-> [w EXCEPT !.tagpoolFile = res.data, !.categories = res.data]]

\* a Properties operation run by the MusicApps' properties object
OnProperties(w, res) ==
    [exc |-> res.exc, w |-> [w EXCEPT !.propsFile = res.data, !.raw_data = res.data]]

\* MusicApps.introduce_category(name)
MusicApps_introduce_category(w, name) ==
    LET a == OnTagpool(w, Tagpool_introduce_category(w.tagpoolFile, name)) IN
    IF a.exc # "none" THEN a
    ELSE OnProperties(a.w, Properties_introduce_category(a.w.propsFile, name))

\* MusicApps.remove_category(name)
MusicApps_remove_category(w, name) ==
    LET a == OnTagpool(w, Tagpool_remove_category(w.tagpoolFile, name)) IN
    IF a.exc # "none" THEN a
    ELSE OnProperties(a.w, Properties_remove_category(a.w.propsFile, name))

\* Category.load: validates against what the MusicApps holds in memory
Category_load(c, w) ==
    IF c.name \notin DOMAIN w.categories
    THEN [exc |-> "CategoryValidationError", c |-> c]
    ELSE LET c1 == [c EXCEPT !.plugin_amount = w.categories[c.name]] IN
         IF c.name = Root THEN [exc |-> "none", c |-> [c1 EXCEPT !.is_root = TRUE]]
         ELSE IF ~ In(c.name, get_sorting(w.raw_data))
         THEN [exc |-> "CategoryValidationError", c |-> c1]
         ELSE [exc |-> "none", c |-> c1]

\* MusicApps.load(): new Tagpool and Properties objects, loaded from the files
MusicApps_load(w) ==
    [exc |-> "none", w |-> [w EXCEPT !.categories = w.tagpoolFile, !.raw_data = w.propsFile]]

\* a call made through another MusicApps instance on the same directory
\* (constructed for the call, so loaded from the files): the files are those
\* its call leaves, the objects of this MusicApps are not touched
ThroughOther(w, res) ==
    [exc |-> res.exc,
     w |-> [w EXCEPT !.tagpoolFile = res.w.tagpoolFile, !.propsFile = res.w.propsFile]]

\* Category.__init__(name, musicapps, lazy)
Category_init(name, lazy, w) ==
    LET c == [name |-> name, is_root |-> FALSE, plugin_amount |-> 0, lazy |-> lazy] IN
    IF lazy THEN [exc |-> "none", c |-> c] ELSE Category_load(c, w)

\* the path ":".join(segs) as the list split(":") gives for it: joining no
\* segments gives "", which splits into one empty segment
join(segs) == IF segs = <<>> THEN <<"">> ELSE segs

\* Category.parent: the root is its own parent; otherwise a Category for
\* ":".join(self.name.split(":")[:-1]), as lazy as this one
Category_parent(c, w) ==
    IF c.is_root THEN [exc |-> "none", c |-> c]
    ELSE Category_init(join(SubSeq(c.name, 1, Len(c.name) - 1)), c.lazy, w)

\* Category.child(name): a Category for f"{self.name}:{name}", whose
\* segments are those of self.name followed by name
Category_child(c, name, w) == Category_init(c.name \o <<name>>, c.lazy, w)

\* Category.introduce(name, musicapps, lazy)
Category_introduce(w, name, lazy) ==
    IF Category_init(name, lazy, w).exc = "none"
    THEN [exc |-> "CategoryExistsError", w |-> w]
    ELSE LET a == MusicApps_introduce_category(w, name) IN
         IF a.exc # "none" THEN a
         ELSE [exc |-> Category_init(name, FALSE, a.w).exc, w |-> a.w]

\* the tail of the ordering methods of Category: run the Properties
\* operation, then self.load()
ThenLoad(c, a) == IF a.exc # "none" THEN a ELSE [exc |-> Category_load(c, a.w).exc, w |-> a.w]

\* Category.neighbors: the root answers (None, None); otherwise each half
\* of Properties.get_neighbors' pair is handed to Category(name=...), which
\* validates it (the len(neighbors) != 2 branch is never taken, the pair
\* always has two halves)
Category_neighbors(c, w) ==
    IF c.is_root THEN [exc |-> "none", ret |-> <<NonePath, NonePath>>]
    ELSE LET g == Properties_get_neighbors(get_sorting(w.raw_data), c.name) IN
         IF g.exc # "none" THEN g
         ELSE LET a == Category_init(g.ret[1], FALSE, w)
                  b == Category_init(g.ret[2], FALSE, w)
              IN IF a.exc # "none" THEN [exc |-> a.exc, ret |-> <<>>]
                 ELSE IF b.exc # "none" THEN [exc |-> b.exc, ret |-> <<>>]
                 ELSE [exc |-> "none", ret |-> <<a.c.name, b.c.name>>]

\* Category.delete()
Category_delete(c, w) ==
    IF c.is_root THEN [exc |-> "none", w |-> w]
    ELSE LET a == OnTagpool(w, Tagpool_remove_category(w.tagpoolFile, c.name)) IN
         IF a.exc # "none" THEN a
         ELSE OnProperties(a.w, Properties_remove_category(a.w.propsFile, c.name))

\* Category.update_plugin_amount(amount)
Category_update_plugin_amount(c, w, amount) ==
    IF c.is_root THEN [exc |-> "none", w |-> w]
    ELSE ThenLoad(c, OnTagpool(w, Tagpool_write_category(w.tagpoolFile, c.name, amount)))

\* Category.move_up(steps)
Category_move_up(c, w, steps) ==
    IF c.is_root THEN [exc |-> "none", w |-> w]
    ELSE ThenLoad(c, OnProperties(w, Properties_move_up(w.propsFile, c.name, steps)))

\* Category.move_down(steps)
Category_move_down(c, w, steps) ==
    IF c.is_root THEN [exc |-> "none", w |-> w]
    ELSE ThenLoad(c, OnProperties(w, Properties_move_down(w.propsFile, c.name, steps)))

\* Category.move_to_top()
Category_move_to_top(c, w) ==
    IF c.is_root THEN [exc |-> "none", w |-> w]
    ELSE ThenLoad(c, OnProperties(w, Properties_move_to_top(w.propsFile, c.name)))

\* Category.move_to_bottom()
Category_move_to_bottom(c, w) ==
    IF c.is_root THEN [exc |-> "none", w |-> w]
    ELSE ThenLoad(c, OnProperties(w, Properties_move_to_bottom(w.propsFile, c.name)))

\* Category.move_before(other)
Category_move_before(c, w, other) ==
    IF c.is_root THEN [exc |-> "none", w |-> w]
    ELSE ThenLoad(c, OnProperties(w, Properties_move_before(w.propsFile, c.name, other)))

\* Category.move_after(other)
Category_move_after(c, w, other) ==
    IF c.is_root THEN [exc |-> "none", w |-> w]
    ELSE ThenLoad(c, OnProperties(w, Properties_move_after(w.propsFile, c.name, other)))

\* Category.move_to(index)
Category_move_to(c, w, idx) ==
    IF c.is_root THEN [exc |-> "none", w |-> w]
    ELSE ThenLoad(c, OnProperties(w, Properties_move_to_index(w.propsFile, c.name, idx)))

\* Category.swap(other)
Category_swap(c, w, other) ==
    IF c.is_root THEN [exc |-> "none", w |-> w]
    ELSE ThenLoad(c, OnProperties(w, Properties_swap(w.propsFile, c.name, other)))

----------------------------------------------------------------------------
(* The same calls with the plist I/O of musicapps.py able to fail.         *)
(* _save_plist opens the file with "wb" and dumps into it: it can fail at  *)
(* open(), the file staying as it was, or in dump(), after open() has      *)
(* truncated the file.  _parse_plist raises MusicAppsLoadError on a file   *)
(* plistlib cannot read.                                                   *)

SaveFaults == {"none", "open", "dump"}

\* what a truncated MusicApps.tagpool / MusicApps.properties holds: nothing
\* plistlib can read
TruncatedTagpool == [k \in {<<"<truncated>">>} |-> 0]
TruncatedProps == [k \in {"<truncated>"} |-> <<>>]

\* _save_plist(path, data) on a file holding old, under the fault
save_plist(old, data, truncated, fault) ==
    IF fault = "none" THEN Ok(data)
    ELSE IF fault = "open" THEN Raise("MusicAppsWriteError", old)
    ELSE Raise("MusicAppsWriteError", truncated)

\* Tagpool.write_category(name, plugin_count): load, assign in memory, save, load
Tagpool_write_category_io(w, name, plugin_count, fault) ==
    IF w.tagpoolFile = TruncatedTagpool THEN [exc |-> "MusicAppsLoadError", w |-> w]
    ELSE LET c == DictSet(w.tagpoolFile, name, plugin_count)
             saved == save_plist(w.tagpoolFile, c, TruncatedTagpool, fault)
         IN [exc |-> saved.exc, w |-> [w EXCEPT !.tagpoolFile = saved.data, !.categories = c]]

\* Tagpool.introduce_category(name)
Tagpool_introduce_category_io(w, name, fault) ==
    IF w.tagpoolFile = TruncatedTagpool THEN [exc |-> "MusicAppsLoadError", w |-> w]
    ELSE IF name \in DOMAIN w.tagpoolFile
    THEN [exc |-> "none", w |-> [w EXCEPT !.categories = w.tagpoolFile]]
    ELSE Tagpool_write_category_io(w, name, 0, fault)

\* Properties.introduce_category(name)
Properties_introduce_category_io(w, name, fault) ==
    IF w.propsFile = TruncatedProps THEN [exc |-> "MusicAppsLoadError", w |-> w]
    ELSE LET loaded == [w EXCEPT !.raw_data = w.propsFile] IN
         IF In(name, get_sorting(w.propsFile)) THEN [exc |-> "none", w |-> loaded]
         ELSE IF "sorting" \notin DOMAIN w.propsFile THEN [exc |-> "KeyError", w |-> loaded]
         ELSE LET r == set_sorting(w.propsFile, Append(w.propsFile["sorting"], name))
                  saved == save_plist(w.propsFile, r, TruncatedProps, fault)
              IN [exc |-> saved.exc, w |-> [w EXCEPT !.propsFile = saved.data, !.raw_data = r]]

\* MusicApps.introduce_category that takes name out of the Tagpool again
\* when the Properties step fails
MusicApps_introduce_category_rollback(w, name, tfault, pfault) ==
    LET a == Tagpool_introduce_category_io(w, name, tfault) IN
    IF a.exc # "none" THEN [exc |-> a.exc, w |-> a.w, at |-> "tagpool"]
    ELSE LET b == Properties_introduce_category_io(a.w, name, pfault) IN
         IF b.exc = "none" THEN [exc |-> "none", w |-> b.w, at |-> "none"]
         ELSE [exc |-> b.exc,
               w |-> [b.w EXCEPT !.tagpoolFile = DictPop(a.w.tagpoolFile, name)],
               at |-> "properties"]

\* MusicApps.introduce_category(name): the Tagpool step, then the Properties
\* step; at is the step that raised
MusicApps_introduce_category_io(w, name, tfault, pfault) ==
    LET a == Tagpool_introduce_category_io(w, name, tfault) IN
    IF a.exc # "none" THEN [exc |-> a.exc, w |-> a.w, at |-> "tagpool"]
    ELSE LET b == Properties_introduce_category_io(a.w, name, pfault) IN
         [exc |-> b.exc, w |-> b.w, at |-> IF b.exc = "none" THEN "none" ELSE "properties"]

\* Properties.remove_category(name) on a file that may be unreadable
Properties_remove_category_io(w, name) ==
    IF w.propsFile = TruncatedProps THEN [exc |-> "MusicAppsLoadError", w |-> w]
    ELSE OnProperties(w, Properties_remove_category(w.propsFile, name))

----------------------------------------------------------------------------
(* Tagset (tagset.py).  f is the plist dictionary of the .tagset file; each *)
(* mutator starts with self.load(), changes the loaded data, writes       *)
(* __raw_data back to the file and loads again.                            *)

NoneStr == "<None>"                \* Python's None where a str is expected

Get(d, k, default) == IF k \in DOMAIN d THEN d[k] ELSE default

\* Tagset.load: self.tags = raw_data.get("tags") or {} is the dictionary
\* held by raw_data only if that one exists and is not empty; otherwise it
\* is a new empty dictionary that raw_data does not hold
TagsHeld(f) == "tags" \in DOMAIN f /\ DOMAIN f["tags"] # {}

Tagset_load(f) ==
    [nickname |-> Get(f, "nickname", NoneStr),
     shortname |-> Get(f, "shortname", NoneStr),
     tags |-> IF TagsHeld(f) THEN f["tags"] ELSE EmptyDict]

\* raw_data after self.tags has been changed in place to tags
TagsChanged(f, tags) == IF TagsHeld(f) THEN DictSet(f, "tags", tags) ELSE f

\* Tagset.set_nickname(nickname)
Tagset_set_nickname(f, nickname) == Ok(DictSet(f, "nickname", nickname))

\* Tagset.set_shortname(shortname)
Tagset_set_shortname(f, shortname) == Ok(DictSet(f, "shortname", shortname))

\* Tagset.set_tags(tags)
Tagset_set_tags(f, tags) == Ok(DictSet(f, "tags", tags))

\* Tagset.add_tag(tag, value): self.tags[tag] = value
Tagset_add_tag(f, tag, value) ==
    Ok(TagsChanged(f, DictSet(Tagset_load(f).tags, tag, value)))

\* Tagset.remove_tag(tag): del self.tags[tag]
Tagset_remove_tag(f, tag) ==
    IF tag \notin DOMAIN Tagset_load(f).tags THEN Raise("KeyError", f)
    ELSE Ok(TagsChanged(f, DictPop(Tagset_load(f).tags, tag)))

\* Tagset.move_to_tag(tag, value): self.tags.clear(); self.tags[tag] = value
Tagset_move_to_tag(f, tag, value) ==
    Ok(TagsChanged(f, DictSet(EmptyDict, tag, value)))

----------------------------------------------------------------------------
(* AudioComponent (components/audiocomponent.py): the unit's .tagset file   *)
(* f, whose tag keys are category paths, and the MusicApps in world w.      *)

\* AudioComponent.load: the tag keys for which Category(name, musicapps)
\* could be constructed; the others are skipped with a warning
LoadedCategories(f, w) ==
    {name \in DOMAIN Tagset_load(f).tags : Category_init(name, FALSE, w).exc = "none"}

\* AudioComponent.move_to_parents(): for each category of self.categories,
\* in the order of that list, add_tag(category.parent.name, "user") and
\* then remove_tag(category.name)
RECURSIVE AudioComponent_move_to_parents(_, _, _)
AudioComponent_move_to_parents(f, cats, w) ==
    IF cats = <<>> THEN Ok(f)
    ELSE LET category == Category_init(Head(cats), FALSE, w).c
             parent == Category_parent(category, w)
         IN IF parent.exc # "none" THEN Raise(parent.exc, f)
            ELSE LET added == Tagset_add_tag(f, parent.c.name, "user")
                     removed == Tagset_remove_tag(added.data, category.name)
                 IN IF removed.exc # "none" THEN removed
                    ELSE AudioComponent_move_to_parents(removed.data, Tail(cats), w)

\* AudioComponent.set_categories(categories)
AudioComponent_set_categories(f, names) ==
    Tagset_set_tags(f, [name \in names |-> "user"])

----------------------------------------------------------------------------
(* The state machine: one action per call of the API.                      *)

NoCall ==
    [op |-> "init", name |-> Root, target |-> Root, n |-> 0, seq |-> <<>>, flag |-> FALSE,
     exc |-> "none", ret |-> <<>>, tagpool0 |-> EmptyDict, props0 |-> EmptyDict,
     tag |-> "", value |-> "", tagset0 |-> EmptyDict, at |-> "none"]

\* the call op(...) ran with result res: the files and the objects in memory
\* are those of res.w, and last remembers the call and the files before it
Call(op, name, target, n, seq, flag, res) ==
    /\ tagpoolFile' = res.w.tagpoolFile
    /\ propsFile' = res.w.propsFile
    /\ categories' = res.w.categories
    /\ raw_data' = res.w.raw_data
    /\ last' = [op |-> op, name |-> name, target |-> target, n |-> n, seq |-> seq,
                flag |-> flag, exc |-> res.exc, ret |-> <<>>,
                tagpool0 |-> tagpoolFile, props0 |-> propsFile,
                tag |-> "", value |-> "", tagset0 |-> tagsetFile, at |-> "none"]
    /\ UNCHANGED <<tagsetFile, tagset, writers>>

\* the query op(name) ran with result res: nothing changes, and last remembers
\* what it returned
Query(op, name, flag, res) ==
    /\ last' = [op |-> op, name |-> name, target |-> Root, n |-> 0, seq |-> <<>>,
                flag |-> flag, exc |-> res.exc, ret |-> res.ret,
                tagpool0 |-> tagpoolFile, props0 |-> propsFile,
                tag |-> "", value |-> "", tagset0 |-> tagsetFile, at |-> "none"]
    /\ UNCHANGED <<tagpoolFile, propsFile, categories, raw_data, tagsetFile, tagset, writers>>

\* the Tagset call op(...) ran with result res: the file is res.data and the
\* object holds what its last load() read (the closing one, or the opening
\* one when the call raised after it)
TagsetCall(op, tag, value, res) ==
    /\ tagsetFile' = res.data
    /\ tagset' = Tagset_load(res.data)
    /\ last' = [op |-> op, name |-> Root, target |-> Root, n |-> 0, seq |-> <<>>,
                flag |-> FALSE, exc |-> res.exc, ret |-> <<>>,
                tagpool0 |-> tagpoolFile, props0 |-> propsFile,
                tag |-> tag, value |-> value, tagset0 |-> tagsetFile, at |-> "none"]
    /\ UNCHANGED <<tagpoolFile, propsFile, categories, raw_data, writers>>

DoTagsetSetNickname(nickname) ==
    TagsetCall("Tagset.set_nickname", "", nickname, Tagset_set_nickname(tagsetFile, nickname))

DoTagsetSetShortname(shortname) ==
    TagsetCall("Tagset.set_shortname", "", shortname, Tagset_set_shortname(tagsetFile, shortname))

DoTagsetSetTags(tags) ==
    TagsetCall("Tagset.set_tags", "", "", Tagset_set_tags(tagsetFile, tags))

DoTagsetAddTag(tag, value) ==
    TagsetCall("Tagset.add_tag", tag, value, Tagset_add_tag(tagsetFile, tag, value))

DoTagsetRemoveTag(tag) ==
    TagsetCall("Tagset.remove_tag", tag, "", Tagset_remove_tag(tagsetFile, tag))

DoTagsetMoveToTag(tag, value) ==
    TagsetCall("Tagset.move_to_tag", tag, value, Tagset_move_to_tag(tagsetFile, tag, value))

\* a call that reports the step it failed at
CallAt(op, name, res) ==
    /\ tagpoolFile' = res.w.tagpoolFile
    /\ propsFile' = res.w.propsFile
    /\ categories' = res.w.categories
    /\ raw_data' = res.w.raw_data
    /\ last' = [op |-> op, name |-> name, target |-> Root, n |-> 0, seq |-> <<>>,
                flag |-> FALSE, exc |-> res.exc, ret |-> <<>>,
                tagpool0 |-> tagpoolFile, props0 |-> propsFile,
                tag |-> "", value |-> "", tagset0 |-> tagsetFile, at |-> res.at]
    /\ UNCHANGED <<tagsetFile, tagset, writers>>

DoMusicAppsIntroduceIO(name, tfault, pfault) ==
    CallAt("MusicApps.introduce_category", name,
           MusicApps_introduce_category_io(World, name, tfault, pfault))

DoTagpoolWriteCategoryIO(name, plugin_count, fault) ==
    LET a == Tagpool_write_category_io(World, name, plugin_count, fault) IN
    CallAt("Tagpool.write_category", name,
           [exc |-> a.exc, w |-> a.w, at |-> IF a.exc = "none" THEN "none" ELSE "tagpool"])

DoPropertiesRemoveIO(name) ==
    LET a == Properties_remove_category_io(World, name) IN
    CallAt("Properties.remove_category", name,
           [exc |-> a.exc, w |-> a.w, at |-> IF a.exc = "none" THEN "none" ELSE "properties"])

\* a call on the unit: its .tagset file is res.data, and last remembers the
\* order cats in which the unit held its categories
UnitCall(op, name, cats, res) ==
    /\ tagsetFile' = res.data
    /\ tagset' = Tagset_load(res.data)
    /\ last' = [op |-> op, name |-> name, target |-> Root, n |-> 0, seq |-> cats,
                flag |-> FALSE, exc |-> res.exc, ret |-> <<>>,
                tagpool0 |-> tagpoolFile, props0 |-> propsFile,
                tag |-> "", value |-> "", tagset0 |-> tagsetFile, at |-> "none"]
    /\ UNCHANGED <<tagpoolFile, propsFile, categories, raw_data, writers>>

\* self.categories lists the loaded categories in the order of the tag keys
\* of the file, which is any order
DoMoveToParents(cats) ==
    /\ Range(cats) = LoadedCategories(tagsetFile, World)
    /\ Len(cats) = Cardinality(Range(cats))
    /\ UnitCall("AudioComponent.move_to_parents", Root, cats,
                AudioComponent_move_to_parents(tagsetFile, cats, World))

DoAddToCategory(name) ==
    /\ Category_init(name, FALSE, World).exc = "none"
    /\ UnitCall("AudioComponent.add_to_category", name, <<>>,
                Tagset_add_tag(tagsetFile, name, "user"))

DoSetCategories(names) ==
    /\ \A name \in names : Category_init(name, FALSE, World).exc = "none"
    /\ UnitCall("AudioComponent.set_categories", Root, <<>>,
                AudioComponent_set_categories(tagsetFile, names))

DoMusicAppsIntroduce(name) ==
    Call("MusicApps.introduce_category", name, Root, 0, <<>>, FALSE,
         MusicApps_introduce_category(World, name))

DoMusicAppsRemove(name) ==
    Call("MusicApps.remove_category", name, Root, 0, <<>>, FALSE,
         MusicApps_remove_category(World, name))

DoPropertiesIntroduce(name) ==
    Call("Properties.introduce_category", name, Root, 0, <<>>, FALSE,
         OnProperties(World, Properties_introduce_category(propsFile, name)))

DoPropertiesRemove(name) ==
    Call("Properties.remove_category", name, Root, 0, <<>>, FALSE,
         OnProperties(World, Properties_remove_category(propsFile, name)))

DoPropertiesEnableUserSorting ==
    Call("Properties.enable_user_sorting", Root, Root, 0, <<>>, FALSE,
         OnProperties(World, Properties_enable_user_sorting(propsFile)))

DoPropertiesEnableAlphabeticalSorting ==
    Call("Properties.enable_alphabetical_sorting", Root, Root, 0, <<>>, FALSE,
         OnProperties(World, Properties_enable_alphabetical_sorting(propsFile)))

DoPropertiesMoveUp(name, steps) ==
    Call("Properties.move_up", name, Root, steps, <<>>, FALSE,
         OnProperties(World, Properties_move_up(propsFile, name, steps)))

DoPropertiesMoveDown(name, steps) ==
    Call("Properties.move_down", name, Root, steps, <<>>, FALSE,
         OnProperties(World, Properties_move_down(propsFile, name, steps)))

DoPropertiesMoveToTop(name) ==
    Call("Properties.move_to_top", name, Root, 0, <<>>, FALSE,
         OnProperties(World, Properties_move_to_top(propsFile, name)))

DoPropertiesMoveToBottom(name) ==
    Call("Properties.move_to_bottom", name, Root, 0, <<>>, FALSE,
         OnProperties(World, Properties_move_to_bottom(propsFile, name)))

DoPropertiesMoveBefore(name, target) ==
    Call("Properties.move_before", name, target, 0, <<>>, FALSE,
         OnProperties(World, Properties_move_before(propsFile, name, target)))

DoPropertiesMoveAfter(name, target) ==
    Call("Properties.move_after", name, target, 0, <<>>, FALSE,
         OnProperties(World, Properties_move_after(propsFile, name, target)))

DoPropertiesMoveToIndex(name, idx) ==
    Call("Properties.move_to_index", name, Root, idx, <<>>, FALSE,
         OnProperties(World, Properties_move_to_index(propsFile, name, idx)))

DoPropertiesSwap(name, target) ==
    Call("Properties.swap", name, target, 0, <<>>, FALSE,
         OnProperties(World, Properties_swap(propsFile, name, target)))

DoPropertiesSetOrder(cats) ==
    Call("Properties.set_order", Root, Root, 0, cats, FALSE,
         OnProperties(World, Properties_set_order(propsFile, cats)))

DoPropertiesReorder(reverse) ==
    Call("Properties.reorder", Root, Root, 0, <<>>, reverse,
         OnProperties(World, Properties_reorder(propsFile, reverse)))

DoCategoryIntroduce(name, lazy) ==
    Call("Category.introduce", name, Root, 0, <<>>, lazy,
         Category_introduce(World, name, lazy))

\* The methods of Category run on an object built by Category(name,
\* musicapps=..., lazy=lazy); the action is the construction followed by the
\* call, and is possible when the construction succeeds.
DoCategoryDelete(name, lazy) ==
    LET k == Category_init(name, lazy, World) IN
    /\ k.exc = "none"
    /\ Call("Category.delete", name, Root, 0, <<>>, lazy, Category_delete(k.c, World))

DoCategoryUpdatePluginAmount(name, lazy, amount) ==
    LET k == Category_init(name, lazy, World) IN
    /\ k.exc = "none"
    /\ Call("Category.update_plugin_amount", name, Root, amount, <<>>, lazy,
            Category_update_plugin_amount(k.c, World, amount))

\* load() on a Category of this MusicApps; what comes back is the exception
\* and the plugin_amount the Category has afterwards
DoCategoryLoad(name, lazy) ==
    LET c == [name |-> name, is_root |-> FALSE, plugin_amount |-> 0, lazy |-> lazy]
        r == Category_load(c, World)
    IN Query("Category.load", name, lazy, [exc |-> r.exc, ret |-> <<r.c.plugin_amount>>])

DoMusicAppsLoad ==
    Call("MusicApps.load", Root, Root, 0, <<>>, FALSE, MusicApps_load(World))

DoOtherRemove(name) ==
    Call("other MusicApps.remove_category", name, Root, 0, <<>>, FALSE,
         ThroughOther(World, MusicApps_remove_category(MusicApps_load(World).w, name)))

DoOtherWriteCategory(name, plugin_count) ==
    Call("other Tagpool.write_category", name, Root, plugin_count, <<>>, FALSE,
         ThroughOther(World, OnTagpool(MusicApps_load(World).w,
                                       Tagpool_write_category(tagpoolFile, name, plugin_count))))

\* Category(name).child(segment).parent; what comes back is the name of the
\* Category reached
DoCategoryChildParent(name, lazy, segment) ==
    LET k == Category_init(name, lazy, World) IN
    /\ k.exc = "none"
    /\ LET ch == Category_child(k.c, segment, World)
           p == Category_parent(ch.c, World)
       IN Query("Category.child.parent", name, lazy,
                IF ch.exc # "none" THEN [exc |-> ch.exc, ret |-> <<>>]
                ELSE IF p.exc # "none" THEN [exc |-> p.exc, ret |-> <<>>]
                ELSE [exc |-> "none", ret |-> <<p.c.name>>])

\* Category(name).parent.child(last segment of name)
DoCategoryParentChild(name, lazy) ==
    LET k == Category_init(name, lazy, World) IN
    /\ k.exc = "none"
    /\ LET p == Category_parent(k.c, World)
           ch == Category_child(p.c, name[Len(name)], World)
       IN Query("Category.parent.child", name, lazy,
                IF p.exc # "none" THEN [exc |-> p.exc, ret |-> <<>>]
                ELSE IF ch.exc # "none" THEN [exc |-> ch.exc, ret |-> <<>>]
                ELSE [exc |-> "none", ret |-> <<ch.c.name>>])

DoCategoryNeighbors(name, lazy) ==
    LET k == Category_init(name, lazy, World) IN
    /\ k.exc = "none"
    /\ Query("Category.neighbors", name, lazy, Category_neighbors(k.c, World))

DoCategoryMoveUp(name, lazy, steps) ==
    LET k == Category_init(name, lazy, World) IN
    /\ k.exc = "none"
    /\ Call("Category.move_up", name, Root, steps, <<>>, lazy,
            Category_move_up(k.c, World, steps))

DoCategoryMoveDown(name, lazy, steps) ==
    LET k == Category_init(name, lazy, World) IN
    /\ k.exc = "none"
    /\ Call("Category.move_down", name, Root, steps, <<>>, lazy,
            Category_move_down(k.c, World, steps))

DoCategoryMoveToTop(name, lazy) ==
    LET k == Category_init(name, lazy, World) IN
    /\ k.exc = "none"
    /\ Call("Category.move_to_top", name, Root, 0, <<>>, lazy,
            Category_move_to_top(k.c, World))

DoCategoryMoveToBottom(name, lazy) ==
    LET k == Category_init(name, lazy, World) IN
    /\ k.exc = "none"
    /\ Call("Category.move_to_bottom", name, Root, 0, <<>>, lazy,
            Category_move_to_bottom(k.c, World))

DoCategoryMoveBefore(name, lazy, other) ==
    LET k == Category_init(name, lazy, World) IN
    /\ k.exc = "none"
    /\ Call("Category.move_before", name, other, 0, <<>>, lazy,
            Category_move_before(k.c, World, other))

DoCategoryMoveAfter(name, lazy, other) ==
    LET k == Category_init(name, lazy, World) IN
    /\ k.exc = "none"
    /\ Call("Category.move_after", name, other, 0, <<>>, lazy,
            Category_move_after(k.c, World, other))

DoCategoryMoveTo(name, lazy, idx) ==
    LET k == Category_init(name, lazy, World) IN
    /\ k.exc = "none"
    /\ Call("Category.move_to", name, Root, idx, <<>>, lazy,
            Category_move_to(k.c, World, idx))

DoCategorySwap(name, lazy, other) ==
    LET k == Category_init(name, lazy, World) IN
    /\ k.exc = "none"
    /\ Call("Category.swap", name, other, 0, <<>>, lazy,
            Category_swap(k.c, World, other))

----------------------------------------------------------------------------
(* Initial states: a MusicApps constructed (not lazily) over loadable      *)
(* stores that are in lockstep: the non-root keys of the Tagpool are the   *)
(* entries of sorting, each listed once.  The root key and the sorting     *)
(* entry of the Properties record may each be present or not.              *)

\* the sequences over S without repetition
DistinctSeqs(S) ==
    UNION {{q \in [1..k -> S] : \A i, j \in 1..k : i # j => q[i] # q[j]} : k \in 0..Cardinality(S)}

\* the sequences over S of length at most n
SeqsUpTo(S, n) == UNION {[1..k -> S] : k \in 0..n}

\* Properties records listing the paths of S in some order, or without the
\* sorting entry
PropsOver(S) == {EmptyDict} \cup {DictSet(EmptyDict, "sorting", q) : q \in DistinctSeqs(S)}

\* the same records, in alphabetical mode (no user_sorted entry) or in user
\* mode (the entry enable_user_sorting writes)
PropsModesOver(S) ==
    PropsOver(S) \cup {DictSet(r, "user_sorted", "property") : r \in PropsOver(S)}

\* Tagpool dicts over the keys S with counts in C
TagpoolsOver(S, C) == UNION {[K -> C] : K \in SUBSET S}

InitWith(props, tagpools) ==
    /\ propsFile \in props
    /\ tagpoolFile \in {f \in tagpools : (DOMAIN f) \ {Root} = Range(get_sorting(propsFile))}
    /\ categories = tagpoolFile
    /\ raw_data = propsFile
    /\ tagsetFile = EmptyDict
    /\ tagset = EmptyDict
    /\ writers = <<>>
    /\ last = NoCall

\* the paths the calls of Spec and SpecLockstep are made with
LifePaths == {Root, PA, PAB}

Init == InitWith(PropsOver(LifePaths \ {Root}), TagpoolsOver(LifePaths, Counts))

\* the calls that add and remove categories, and the one that sets a count
Next ==
    \/ \E name \in LifePaths : DoMusicAppsIntroduce(name)
    \/ \E name \in LifePaths : DoMusicAppsRemove(name)
    \/ \E name \in LifePaths : DoPropertiesIntroduce(name)
    \/ \E name \in LifePaths : DoPropertiesRemove(name)
    \/ \E name \in LifePaths, lazy \in BOOLEAN : DoCategoryIntroduce(name, lazy)
    \/ \E name \in LifePaths, lazy \in BOOLEAN : DoCategoryDelete(name, lazy)
    \/ \E name \in LifePaths, lazy \in BOOLEAN, amount \in Counts :
           DoCategoryUpdatePluginAmount(name, lazy, amount)

Spec == Init /\ [][Next]_vars

\* the methods of Category that remove, count and order
NextCategory ==
    \/ \E name \in LifePaths, lazy \in BOOLEAN : DoCategoryDelete(name, lazy)
    \/ \E name \in LifePaths, lazy \in BOOLEAN, amount \in Counts :
           DoCategoryUpdatePluginAmount(name, lazy, amount)
    \/ \E name \in LifePaths, lazy \in BOOLEAN, steps \in Ints : DoCategoryMoveUp(name, lazy, steps)
    \/ \E name \in LifePaths, lazy \in BOOLEAN, steps \in Ints : DoCategoryMoveDown(name, lazy, steps)
    \/ \E name \in LifePaths, lazy \in BOOLEAN : DoCategoryMoveToTop(name, lazy)
    \/ \E name \in LifePaths, lazy \in BOOLEAN : DoCategoryMoveToBottom(name, lazy)
    \/ \E name \in LifePaths, lazy \in BOOLEAN, other \in LifePaths :
           DoCategoryMoveBefore(name, lazy, other)
    \/ \E name \in LifePaths, lazy \in BOOLEAN, other \in LifePaths :
           DoCategoryMoveAfter(name, lazy, other)
    \/ \E name \in LifePaths, lazy \in BOOLEAN, idx \in Ints : DoCategoryMoveTo(name, lazy, idx)
    \/ \E name \in LifePaths, lazy \in BOOLEAN : DoCategoryNeighbors(name, lazy)
    \/ \E name \in LifePaths, lazy \in BOOLEAN, other \in LifePaths :
           DoCategorySwap(name, lazy, other)

SpecCategory == Init /\ [][NextCategory]_vars

\* the calls the lockstep invariant of the two stores is stated for
InitLockstep == InitWith(PropsOver(LifePaths \ {Root}), TagpoolsOver(LifePaths, {0}))

NextLockstep ==
    \/ \E name \in LifePaths : DoMusicAppsIntroduce(name)
    \/ \E name \in LifePaths : DoMusicAppsRemove(name)
    \/ \E name \in LifePaths, lazy \in BOOLEAN : DoCategoryIntroduce(name, lazy)
    \/ \E name \in LifePaths, lazy \in BOOLEAN : DoCategoryDelete(name, lazy)
    \/ \E name \in LifePaths, steps \in Ints : DoPropertiesMoveUp(name, steps)
    \/ \E name \in LifePaths, steps \in Ints : DoPropertiesMoveDown(name, steps)
    \/ \E name \in LifePaths : DoPropertiesMoveToTop(name)
    \/ \E name \in LifePaths : DoPropertiesMoveToBottom(name)
    \/ \E name \in LifePaths, target \in LifePaths : DoPropertiesMoveBefore(name, target)
    \/ \E name \in LifePaths, target \in LifePaths : DoPropertiesMoveAfter(name, target)
    \/ \E name \in LifePaths, idx \in Ints : DoPropertiesMoveToIndex(name, idx)
    \/ \E name \in LifePaths, target \in LifePaths : DoPropertiesSwap(name, target)
    \/ \E cats \in SeqsUpTo(LifePaths, MaxOrderLen) : DoPropertiesSetOrder(cats)
    \/ \E reverse \in BOOLEAN : DoPropertiesReorder(reverse)

SpecLockstep == InitLockstep /\ [][NextLockstep]_vars

\* the ordering operations of Properties applied to every sorting of Names
InitOrder == InitWith(PropsModesOver(Names), TagpoolsOver(Names, {0}))

NextOrder ==
    \/ \E name \in Paths, idx \in Ints : DoPropertiesMoveToIndex(name, idx)
    \/ \E name \in Paths, steps \in Ints : DoPropertiesMoveUp(name, steps)
    \/ \E name \in Paths, steps \in Ints : DoPropertiesMoveDown(name, steps)
    \/ \E name \in Paths : DoPropertiesMoveToTop(name)
    \/ \E name \in Paths : DoPropertiesMoveToBottom(name)
    \/ \E name \in Paths, target \in Paths : DoPropertiesMoveBefore(name, target)
    \/ \E name \in Paths, target \in Paths : DoPropertiesMoveAfter(name, target)
    \/ \E name \in Paths, target \in Paths : DoPropertiesSwap(name, target)
    \/ \E name \in Paths : DoPropertiesRemove(name)
    \/ DoPropertiesEnableUserSorting
    \/ DoPropertiesEnableAlphabeticalSorting

SpecOrder == InitOrder /\ [][NextOrder]_vars

----------------------------------------------------------------------------
(* Properties checked *)

\* persisted sorting now, and before the last call
Sorting == get_sorting(propsFile)
Sorting0 == get_sorting(last.props0)

Returned == last.exc = "none"
FilesUnchanged == tagpoolFile = last.tagpool0 /\ propsFile = last.props0

Occurrences(s, x) == Cardinality({i \in 1..Len(s) : s[i] = x})
IsPermutation(s, t) ==
    /\ Len(s) = Len(t)
    /\ \A x \in Range(s) \cup Range(t) : Occurrences(s, x) = Occurrences(t, x)

\* s without its first x: the order of the other entries
Others(s, x) == IF In(x, s) THEN remove(s, x) ELSE s

Clamp(i, len) == Max(0, Min(len - 1, i))

\* C1 (SpecLockstep): every non-root key of the Tagpool is listed exactly
\* once in sorting, and every entry of sorting is a non-root key of the
\* Tagpool.
C1_Lockstep ==
    /\ \A p \in (DOMAIN tagpoolFile) \ {Root} : Occurrences(Sorting, p) = 1
    /\ \A i \in 1..Len(Sorting) : Sorting[i] # Root /\ Sorting[i] \in DOMAIN tagpoolFile

\* C2 as claimed: after MusicApps.introduce_category(p) returns for a
\* non-root p, p is in both files and Category(p) validates with
\* plugin_amount 0.
C2_IntroducedCountZero ==
    (last.op = "MusicApps.introduce_category" /\ Returned /\ last.name # Root) =>
        LET k == Category_init(last.name, FALSE, World) IN
        /\ last.name \in DOMAIN tagpoolFile
        /\ In(last.name, Sorting)
        /\ k.exc = "none"
        /\ k.c.plugin_amount = 0

\* C2 as amended: after MusicApps.introduce_category(p) returns for a
\* non-root p, p is in both files and Category(p) validates; plugin_amount
\* is 0 when p was not a key of the Tagpool before, and the count the
\* Tagpool already held for p otherwise.
C2_Introduced ==
    (last.op = "MusicApps.introduce_category" /\ Returned /\ last.name # Root) =>
        LET k == Category_init(last.name, FALSE, World) IN
        /\ last.name \in DOMAIN tagpoolFile
        /\ In(last.name, Sorting)
        /\ k.exc = "none"
        /\ k.c.plugin_amount =
               IF last.name \in DOMAIN last.tagpool0 THEN last.tagpool0[last.name] ELSE 0

\* C2 witness: a non-root path in neither store has been introduced, next
\* to an entry with a count above 0
C2_Witness ==
    /\ last.op = "MusicApps.introduce_category" /\ Returned /\ last.name # Root
    /\ last.name \notin DOMAIN last.tagpool0
    /\ ~ In(last.name, Sorting0)
    /\ \E p \in DOMAIN tagpoolFile : tagpoolFile[p] > 0

\* C3 as claimed: after MusicApps.remove_category(p) or Category(p).delete()
\* completes, Category(p) raises the validation error.
C3_RemovedInvalid ==
    (last.op \in {"MusicApps.remove_category", "Category.delete"} /\ Returned) =>
        Category_init(last.name, FALSE, World).exc = "CategoryValidationError"

\* C3 as amended: after MusicApps.remove_category(p) completes for any p,
\* and after Category(p).delete() completes for a non-root p, Category(p)
\* raises the validation error.
C3_RemovedInvalidNonRoot ==
    (/\ last.op \in {"MusicApps.remove_category", "Category.delete"}
     /\ Returned
     /\ (last.op = "Category.delete" => last.name # Root)) =>
        Category_init(last.name, FALSE, World).exc = "CategoryValidationError"

\* C3 witness: a category that was valid has been removed
C3_Witness ==
    /\ last.op \in {"MusicApps.remove_category", "Category.delete"} /\ Returned
    /\ last.name \in DOMAIN last.tagpool0
    /\ In(last.name, Sorting0)

\* C4 (Spec): Category("") loads with is_root set, whatever the stores hold.
C4_RootAlwaysValid ==
    LET k == Category_init(Root, FALSE, World) IN k.exc = "none" /\ k.c.is_root

CategoryRootOps ==
    {"Category.delete", "Category.update_plugin_amount", "Category.move_up",
     "Category.move_down", "Category.move_to_top", "Category.move_to_bottom",
     "Category.move_before", "Category.move_after", "Category.move_to", "Category.swap"}

\* C5 (SpecCategory): a removal, count or ordering method of a Category
\* named "" raises nothing and leaves both files as they were, whether the
\* Category was constructed lazily (last.flag) or not.
C5_RootOpsNoOp ==
    (last.op \in CategoryRootOps /\ last.name = Root) => (Returned /\ FilesUnchanged)

\* C6 (Spec): Category.introduce raises the 'already exists' error exactly
\* when the name was in both stores, and then changes nothing; otherwise it
\* adds the name to both stores and returns a validated Category.
C6_IntroduceExists ==
    last.op = "Category.introduce" =>
        LET present == last.name \in DOMAIN last.tagpool0 /\ In(last.name, Sorting0) IN
        /\ (last.exc = "CategoryExistsError") <=> present
        /\ last.exc = "CategoryExistsError" => FilesUnchanged
        /\ ~ present =>
               /\ Returned
               /\ last.name \in DOMAIN tagpoolFile
               /\ In(last.name, Sorting)
               /\ Category_init(last.name, FALSE, World).exc = "none"

\* C7 (Spec): Properties.introduce_category(name) returns; a name not
\* listed is appended to the previous sorting (the empty sequence when the
\* record has no sorting entry), a listed one leaves sorting as it was.
C7_PropertiesIntroduce ==
    last.op = "Properties.introduce_category" =>
        /\ Returned
        /\ Sorting = IF In(last.name, Sorting0) THEN Sorting0 ELSE Append(Sorting0, last.name)

\* C8 (SpecLockstep): set_order(seq) succeeds exactly when seq is a
\* permutation of sorting, sorting is then seq; otherwise it raises the
\* mismatch error and the file is unchanged.
C8_SetOrder ==
    last.op = "Properties.set_order" =>
        /\ Returned <=> IsPermutation(last.seq, Sorting0)
        /\ Returned => Sorting = last.seq
        /\ ~ Returned => (last.exc = "ValueError" /\ propsFile = last.props0)

\* C9 (SpecOrder): after move_to_index(name, i) on a sorting of length len
\* that lists name, get_index(name) is max(0, min(len-1, i if i >= 0 else
\* len+i)) and the other entries keep their order.
C9_MoveToIndex ==
    (last.op = "Properties.move_to_index" /\ In(last.name, Sorting0)) =>
        LET len == Len(Sorting0)
            i == last.n
        IN  /\ Returned
            /\ In(last.name, Sorting)
            /\ get_index(Sorting, last.name) = Max(0, Min(len - 1, IF i >= 0 THEN i ELSE len + i))
            /\ Others(Sorting, last.name) = Others(Sorting0, last.name)

\* C9 witness: a negative index moved an entry of a sorting of three
C9_Witness ==
    /\ last.op = "Properties.move_to_index" /\ Returned
    /\ last.n < 0
    /\ Len(Sorting0) = 3
    /\ Sorting # Sorting0

\* C10 (SpecOrder): move_up and move_down of a listed name never fail, put
\* the name at max(0, idx-steps), respectively min(len-1, idx+steps),
\* limited to 0..len-1, and keep the order of the other entries.
C10_MoveUpDown ==
    (last.op \in {"Properties.move_up", "Properties.move_down"} /\ In(last.name, Sorting0)) =>
        LET len == Len(Sorting0)
            idx == index(Sorting0, last.name)
            want == IF last.op = "Properties.move_up"
                    THEN Max(0, idx - last.n)
                    ELSE Min(len - 1, idx + last.n)
        IN  /\ Returned
            /\ In(last.name, Sorting)
            /\ index(Sorting, last.name) = Clamp(want, len)
            /\ Others(Sorting, last.name) = Others(Sorting0, last.name)

\* C11 (SpecOrder): after move_after(name, target), respectively
\* move_before(name, target), with two distinct listed paths, name is right
\* after, respectively right before, target, and the other entries keep
\* their order.
C11_MoveBeforeAfter ==
    (/\ last.op \in {"Properties.move_before", "Properties.move_after"}
     /\ last.name # last.target
     /\ In(last.name, Sorting0) /\ In(last.target, Sorting0)) =>
        /\ Returned
        /\ In(last.name, Sorting) /\ In(last.target, Sorting)
        /\ index(Sorting, last.name) =
               IF last.op = "Properties.move_after"
               THEN index(Sorting, last.target) + 1
               ELSE index(Sorting, last.target) - 1
        /\ Others(Sorting, last.name) = Others(Sorting0, last.name)

\* C11 witness: [name, x, target] after move_after(name, target)
C11_Witness ==
    /\ last.op = "Properties.move_after" /\ Returned
    /\ Len(Sorting0) = 3
    /\ Sorting0[1] = last.name /\ Sorting0[3] = last.target
    /\ Sorting = <<Sorting0[2], Sorting0[3], Sorting0[1]>>

\* C12 (SpecOrder): swap(a, b) of two listed paths puts a where b was and b
\* where a was, leaves every other entry at its index, and a second
\* swap(a, b) gives back the sorting before the first.
C12_SwapInvolution ==
    (last.op = "Properties.swap" /\ In(last.name, Sorting0) /\ In(last.target, Sorting0)) =>
        /\ Returned
        /\ Len(Sorting) = Len(Sorting0)
        /\ Sorting[index(Sorting0, last.name) + 1] = last.target
        /\ Sorting[index(Sorting0, last.target) + 1] = last.name
        /\ \A j \in 1..Len(Sorting0) :
               Sorting0[j] \notin {last.name, last.target} => Sorting[j] = Sorting0[j]
        /\ Properties_swap(propsFile, last.name, last.target) = Ok(last.props0)

\* C12 witness: the first and the last of three entries have been swapped
C12_Witness ==
    /\ last.op = "Properties.swap" /\ Returned
    /\ Len(Sorting0) = 3
    /\ Sorting0[1] = last.name /\ Sorting0[3] = last.target
    /\ Sorting = <<Sorting0[3], Sorting0[2], Sorting0[1]>>

\* C16 (SpecOrder): enable_user_sorting returns and leaves user_sorted true,
\* enable_alphabetical_sorting returns and leaves user_sorted false, also
\* when the store has no user_sorted entry; both leave sorting unchanged.
C16_SortModeToggles ==
    (last.op \in {"Properties.enable_user_sorting", "Properties.enable_alphabetical_sorting"}) =>
        /\ Returned
        /\ get_user_sorted(propsFile) = (last.op = "Properties.enable_user_sorting")
        /\ Sorting = Sorting0

PathOps ==
    {"Properties.move_up", "Properties.move_down", "Properties.move_to_top",
     "Properties.move_to_bottom", "Properties.move_before", "Properties.move_after",
     "Properties.move_to_index", "Properties.swap", "Properties.remove_category"}
TargetOps == {"Properties.move_before", "Properties.move_after", "Properties.swap"}

\* the call named a path that sorting did not list
AbsentPath ==
    /\ last.op \in PathOps
    /\ \/ ~ In(last.name, Sorting0)
       \/ last.op \in TargetOps /\ ~ In(last.target, Sorting0)

\* C18 (SpecOrder): a Properties operation that names a path absent from
\* sorting raises a not-found error (ValueError; KeyError from
\* remove_category when the store has no sorting entry at all) and leaves
\* the persisted record, sorting and user_sorted, as it was.
C18_AbsentPathFails ==
    AbsentPath =>
        /\ last.exc = IF last.op = "Properties.remove_category" /\ "sorting" \notin DOMAIN last.props0
                      THEN "KeyError" ELSE "ValueError"
        /\ propsFile = last.props0
        /\ raw_data = last.props0

\* C18 witness: swap of a listed path with an unlisted one in user mode
C18_Witness ==
    /\ last.op = "Properties.swap"
    /\ In(last.name, Sorting0) /\ ~ In(last.target, Sorting0)
    /\ last.exc = "ValueError"
    /\ Len(Sorting) = 2 /\ get_user_sorted(propsFile)

\* C17 (SpecCategory): neighbors of a validated non-root category raises
\* nothing and returns (previous, next) from sorting, with None for the
\* previous one when the category is first and for the next one when it is
\* last.
C17_Neighbors ==
    (last.op = "Category.neighbors" /\ ~ last.flag /\ last.name # Root) =>
        LET i == index(Sorting, last.name) + 1 IN
        /\ Returned
        /\ last.ret = <<IF i = 1 THEN NonePath ELSE Sorting[i - 1],
                        IF i = Len(Sorting) THEN NonePath ELSE Sorting[i + 1]>>

----------------------------------------------------------------------------
(* Tagset: one .tagset file and the Tagset object constructed on it.       *)

TagNames == {"x", "y"}
TagValues == {"user", "other"}
NickNames == {"n"}

\* the tags dictionaries over TagNames
TagDicts == UNION {[K -> TagValues] : K \in SUBSET TagNames}

\* the optional entry k with a value of V
Entries(k, V) == {EmptyDict} \cup {DictSet(EmptyDict, k, v) : v \in V}

Merge(d, e) == [k \in (DOMAIN d) \cup (DOMAIN e) |-> IF k \in DOMAIN d THEN d[k] ELSE e[k]]

\* the .tagset files: nickname, shortname and tags are each present or not
TagsetFiles ==
    {Merge(a, Merge(b, c)) : a \in Entries("nickname", NickNames),
                             b \in Entries("shortname", NickNames),
                             c \in Entries("tags", TagDicts)}

InitTagset ==
    /\ tagpoolFile = EmptyDict
    /\ propsFile = EmptyDict
    /\ categories = EmptyDict
    /\ raw_data = EmptyDict
    /\ tagsetFile \in TagsetFiles
    /\ tagset = Tagset_load(tagsetFile)
    /\ writers = <<>>
    /\ last = NoCall

NextTagset ==
    \/ \E nickname \in NickNames : DoTagsetSetNickname(nickname)
    \/ \E shortname \in NickNames : DoTagsetSetShortname(shortname)
    \/ \E tags \in TagDicts : DoTagsetSetTags(tags)
    \/ \E tag \in TagNames, value \in TagValues : DoTagsetAddTag(tag, value)
    \/ \E tag \in TagNames : DoTagsetRemoveTag(tag)
    \/ \E tag \in TagNames, value \in TagValues : DoTagsetMoveToTag(tag, value)

SpecTagset == InitTagset /\ [][NextTagset]_vars

FileTags == Get(tagsetFile, "tags", EmptyDict)
FileTags0 == Get(last.tagset0, "tags", EmptyDict)

\* C13 (SpecTagset): after add_tag(tag, value) returns, the tags in memory
\* and the tags in the file map tag to value, every other tag is as before,
\* and nickname and shortname are as before; also when the file's tags were
\* empty or missing.
C13_AddTag ==
    (last.op = "Tagset.add_tag") =>
        /\ Returned
        /\ tagset.tags = DictSet(FileTags0, last.tag, last.value)
        /\ FileTags = DictSet(FileTags0, last.tag, last.value)
        /\ tagset.nickname = Tagset_load(last.tagset0).nickname
        /\ tagset.shortname = Tagset_load(last.tagset0).shortname
        /\ DictPop(tagsetFile, "tags") = DictPop(last.tagset0, "tags")

\* C14 (SpecTagset): after add_tag(x, "user"), remove_tag(x) returns and
\* leaves, in memory and in the file, the tags mapping there was before the
\* add_tag, whatever that mapping was.
C14_AddRemoveRoundTrip ==
    (last.op = "Tagset.add_tag" /\ last.value = "user") =>
        LET r == Tagset_remove_tag(tagsetFile, last.tag) IN
        /\ Returned
        /\ r.exc = "none"
        /\ Tagset_load(r.data).tags = Tagset_load(last.tagset0).tags
        /\ Get(r.data, "tags", EmptyDict) = FileTags0

\* C15 (SpecTagset): after move_to_tag(tag, value) returns, the tags in
\* memory and the tags in the file are exactly {tag: value}, whatever the
\* tags were before (several, one, none, or no tags entry).
C15_MoveToTag ==
    (last.op = "Tagset.move_to_tag") =>
        /\ Returned
        /\ tagset.tags = DictSet(EmptyDict, last.tag, last.value)
        /\ FileTags = DictSet(EmptyDict, last.tag, last.value)

----------------------------------------------------------------------------
(* MusicApps.introduce_category with saves that can fail.                  *)

NextFault ==
    \/ \E name \in LifePaths, tfault \in SaveFaults, pfault \in SaveFaults :
           DoMusicAppsIntroduceIO(name, tfault, pfault)
    \/ \E name \in LifePaths, plugin_count \in Counts, fault \in SaveFaults :
           DoTagpoolWriteCategoryIO(name, plugin_count, fault)
    \/ \E name \in LifePaths : DoPropertiesRemoveIO(name)

SpecFault == Init /\ [][NextFault]_vars

\* MusicApps.introduce_category(name) failed in its Properties step
PropertiesStepFailed == last.op = "MusicApps.introduce_category" /\ last.at = "properties"

\* C19 as stated (SpecFault): when the Properties step of
\* MusicApps.introduce_category(name) fails after the Tagpool step
\* succeeded, the call fails, the Tagpool file has name with count 0 and the
\* sorting in the Properties file does not list name.
C19_NotRolledBackCountZero ==
    PropertiesStepFailed =>
        /\ ~ Returned
        /\ last.name \in DOMAIN tagpoolFile
        /\ tagpoolFile[last.name] = 0
        /\ ~ In(last.name, Sorting)

\* C19 amended (SpecFault): ... the Tagpool file keeps what the Tagpool step
\* left, name with count 0 if it was new and with its previous count if the
\* Tagpool had it already, and the sorting in the Properties file does not
\* list name.
C19_NotRolledBack ==
    PropertiesStepFailed =>
        /\ ~ Returned
        /\ tagpoolFile = IF last.name \in DOMAIN last.tagpool0 THEN last.tagpool0
                         ELSE DictSet(last.tagpool0, last.name, 0)
        /\ ~ In(last.name, Sorting)

\* C19 witness: the save of the Properties step failed after the Tagpool
\* step had added name
C19_Witness ==
    /\ PropertiesStepFailed
    /\ last.exc = "MusicAppsWriteError"
    /\ last.name \notin DOMAIN last.tagpool0
    /\ last.name \in DOMAIN tagpoolFile /\ tagpoolFile[last.name] = 0
    /\ "sorting" \in DOMAIN propsFile /\ ~ In(last.name, Sorting)

----------------------------------------------------------------------------
(* Two mutators running against the same store files, each in a process of *)
(* its own (its own Tagpool / Properties object).  A mutator is            *)
(* Properties.introduce_category(name) or Tagpool.write_category(name,     *)
(* plugin_count); its steps are those at which it touches the file:        *)
(*   load    self.load() and the change of the loaded data                 *)
(*   open    _save_plist: open(path, "wb"), which truncates the file       *)
(*   dump    _save_plist: plistlib.dump and the close that flushes it      *)
(*   reload  the closing self.load()                                       *)

Writers == {1, 2}

OnProps(i) == writers[i].op = "Properties.introduce_category"
File(i) == IF OnProps(i) THEN propsFile ELSE tagpoolFile
Truncated(i) == IF OnProps(i) THEN TruncatedProps ELSE TruncatedTagpool
SameFile(i, j) == OnProps(i) = OnProps(j)

\* the file of writer i becomes f
WriteFile(i, f) ==
    /\ propsFile' = IF OnProps(i) THEN f ELSE propsFile
    /\ tagpoolFile' = IF OnProps(i) THEN tagpoolFile ELSE f

\* self.load() and what the mutator does to the loaded data before it saves
WriterLoad(i) ==
    LET me == writers[i]
        f == File(i)
    IN
    /\ me.pc = "load"
    /\ writers' = [writers EXCEPT ![i] =
           IF f = Truncated(i)
           THEN [me EXCEPT !.pc = "done", !.exc = "MusicAppsLoadError"]
           ELSE IF ~ OnProps(i)
           THEN [me EXCEPT !.pc = "open", !.data = DictSet(f, me.name, me.plugin_count)]
           ELSE IF In(me.name, get_sorting(f))
           THEN [me EXCEPT !.pc = "done", !.data = f]
           ELSE IF "sorting" \notin DOMAIN f
           THEN [me EXCEPT !.pc = "done", !.data = f, !.exc = "KeyError"]
           ELSE [me EXCEPT !.pc = "open",
                           !.data = set_sorting(f, Append(f["sorting"], me.name))]]
    /\ UNCHANGED <<tagpoolFile, propsFile, categories, raw_data, tagsetFile, tagset, last>>

\* writer j has saved into the file of writer i, whose record is w: i notes
\* it if it has loaded and not begun to save (raced), and if it holds the
\* file open (overlaid)
Noting(i, j, w) ==
    IF i = j \/ ~ SameFile(i, j) THEN w
    ELSE [w EXCEPT !.raced = w.raced \/ w.pc = "open",
                   !.overlaid = w.overlaid \/ w.pc = "dump"]

\* open(path, "wb")
WriterOpen(i) ==
    /\ writers[i].pc = "open"
    /\ WriteFile(i, Truncated(i))
    /\ writers' = [writers EXCEPT ![i].pc = "dump"]
    /\ UNCHANGED <<categories, raw_data, tagsetFile, tagset, last>>

\* plistlib.dump(data, fp) and close: the file holds data, unless the other
\* writer wrote through its own handle since this one opened the file; then
\* the bytes of this dump land on the other's and the file holds data or
\* something plistlib cannot read
WriterDump(i) ==
    /\ writers[i].pc = "dump"
    /\ \E f \in {writers[i].data} \cup (IF writers[i].overlaid THEN {Truncated(i)} ELSE {}) :
           WriteFile(i, f)
    /\ writers' = [j \in Writers |->
                      IF j = i THEN [writers[i] EXCEPT !.pc = "reload"]
                      ELSE Noting(j, i, writers[j])]
    /\ UNCHANGED <<categories, raw_data, tagsetFile, tagset, last>>

\* the closing self.load()
WriterReload(i) ==
    /\ writers[i].pc = "reload"
    /\ writers' = [writers EXCEPT ![i] =
           IF File(i) = Truncated(i)
           THEN [@ EXCEPT !.pc = "done", !.exc = "MusicAppsLoadError"]
           ELSE [@ EXCEPT !.pc = "done"]]
    /\ UNCHANGED <<tagpoolFile, propsFile, categories, raw_data, tagsetFile, tagset, last>>

\* a mutator call that has not started
NewWriter(op, name, plugin_count) ==
    [op |-> op, name |-> name, plugin_count |-> plugin_count, pc |-> "load",
     data |-> EmptyDict, exc |-> "none", raced |-> FALSE, overlaid |-> FALSE]

WriterCalls ==
    {NewWriter("Properties.introduce_category", name, 0) : name \in Names}
    \cup {NewWriter("Tagpool.write_category", name, c) : name \in Names, c \in Counts}

InitRace ==
    /\ propsFile \in PropsOver({PA})
    /\ tagpoolFile \in {f \in TagpoolsOver({PA}, {0}) : DOMAIN f = Range(get_sorting(propsFile))}
    /\ categories = tagpoolFile
    /\ raw_data = propsFile
    /\ tagsetFile = EmptyDict
    /\ tagset = EmptyDict
    /\ writers \in [Writers -> WriterCalls]
    /\ last = NoCall

NextRace ==
    \/ \E i \in Writers : WriterLoad(i)
    \/ \E i \in Writers : WriterOpen(i)
    \/ \E i \in Writers : WriterDump(i)
    \/ \E i \in Writers : WriterReload(i)

SpecRace == InitRace /\ [][NextRace]_vars

AllDone == \A i \in Writers : writers[i].pc = "done"

\* C20 (SpecRace): when the other writer saved into the file between a
\* mutator's load and its save, both calls end without error and the file
\* ends up holding what that mutator saved, i.e. without the other writer's
\* change: no such interleaving ends in an error or in a file that is not
\* the mutator's own.
C20_LostUpdate ==
    \A i \in Writers :
        (AllDone /\ writers[i].raced) =>
            /\ \A j \in Writers : writers[j].exc = "none"
            /\ File(i) = writers[i].data

----------------------------------------------------------------------------
(* Frame of the ordering mutators, repair by introduce_category            *)

OrderingOps ==
    {"Properties.move_up", "Properties.move_down", "Properties.move_to_top",
     "Properties.move_to_bottom", "Properties.move_before", "Properties.move_after",
     "Properties.move_to_index", "Properties.swap", "Properties.set_order",
     "Properties.reorder"}

\* C23 (SpecLockstep): move_before(name, name) and move_after(name, name)
\* with name listed leave the Properties file as it was, and every ordering
\* mutator that returns leaves sorting a permutation of what it was and the
\* Tagpool file unchanged.
C23_OrderingFrame ==
    /\ (/\ last.op \in {"Properties.move_before", "Properties.move_after"}
        /\ last.name = last.target
        /\ In(last.name, Sorting0)) => propsFile = last.props0
    /\ (last.op \in OrderingOps /\ Returned) =>
           /\ IsPermutation(Sorting, Sorting0)
           /\ tagpoolFile = last.tagpool0

\* C22 (Spec): MusicApps.introduce_category(name) with name already in the
\* Tagpool, in sorting or in both returns with name in both; the Tagpool
\* keeps an existing count and gains at most name with count 0, sorting
\* keeps every entry where it was and gains at most name at its end; and a
\* second introduce_category(name) changes nothing.
C22_IntroduceRepairs ==
    (/\ last.op = "MusicApps.introduce_category"
     /\ (last.name \in DOMAIN last.tagpool0 \/ In(last.name, Sorting0))) =>
        /\ Returned
        /\ tagpoolFile = IF last.name \in DOMAIN last.tagpool0 THEN last.tagpool0
                         ELSE DictSet(last.tagpool0, last.name, 0)
        /\ Sorting = IF In(last.name, Sorting0) THEN Sorting0 ELSE Append(Sorting0, last.name)
        /\ MusicApps_introduce_category(World, last.name) = [exc |-> "none", w |-> World]

----------------------------------------------------------------------------
(* One MusicApps and its categories, with a second MusicApps instance      *)
(* writing to the same directory.                                          *)

\* the paths the two instances work on
SharedPaths == {Root, PA}

NextShared ==
    \/ \E name \in SharedPaths : DoOtherRemove(name)
    \/ \E name \in SharedPaths, plugin_count \in Counts : DoOtherWriteCategory(name, plugin_count)
    \/ \E name \in SharedPaths, lazy \in BOOLEAN : DoCategoryLoad(name, lazy)
    \/ \E name \in SharedPaths : DoMusicAppsIntroduce(name)
    \/ DoMusicAppsLoad

InitShared == InitWith(PropsOver(SharedPaths \ {Root}), TagpoolsOver(SharedPaths, {0}))

SpecShared == InitShared /\ [][NextShared]_vars

\* C21 (SpecShared): Category.load() goes by what the two files hold now: it
\* raises the validation error when the path is missing from the Tagpool
\* file or, for a non-root path, from sorting in the Properties file, and
\* otherwise leaves plugin_amount at the count in the Tagpool file, also
\* after another MusicApps instance changed the files.
C21_LoadReadsFiles ==
    (last.op = "Category.load") =>
        IF \/ last.name \notin DOMAIN tagpoolFile
           \/ last.name # Root /\ ~ In(last.name, Sorting)
        THEN last.exc = "CategoryValidationError"
        ELSE Returned /\ last.ret = <<tagpoolFile[last.name]>>

----------------------------------------------------------------------------
(* Walking the category tree: parent and child.                            *)

Segments == {"A", "B"}

NextTree ==
    \/ \E name \in LifePaths, lazy \in BOOLEAN, segment \in Segments :
           DoCategoryChildParent(name, lazy, segment)
    \/ \E name \in LifePaths, lazy \in BOOLEAN : DoCategoryParentChild(name, lazy)
    \/ \E name \in LifePaths : DoMusicAppsIntroduce(name)
    \/ \E name \in LifePaths : DoMusicAppsRemove(name)

SpecTree == Init /\ [][NextTree]_vars

\* C24 (SpecTree): c.child(n).parent has the name of c, for the root too;
\* and for a non-root d, d.parent.child(last segment of d) has the name of
\* d, also when d is a top-level category whose parent is the root.
C24_ParentChildInverse ==
    /\ (last.op = "Category.child.parent" /\ Returned) => last.ret = <<last.name>>
    /\ (last.op = "Category.parent.child" /\ last.name # Root /\ Returned) =>
           last.ret = <<last.name>>

----------------------------------------------------------------------------
(* One unit (AudioComponent) and its tags, over a MusicApps.                *)

\* the .tagset files of the unit: no tags entry, or tags on some paths
UnitTagsets ==
    {EmptyDict} \cup {DictSet(EmptyDict, "tags", [name \in K |-> "user"]) : K \in SUBSET LifePaths}

InitUnit ==
    /\ propsFile \in PropsOver(LifePaths \ {Root})
    /\ tagpoolFile \in {f \in TagpoolsOver(LifePaths, {0}) :
                           (DOMAIN f) \ {Root} = Range(get_sorting(propsFile))}
    /\ categories = tagpoolFile
    /\ raw_data = propsFile
    /\ tagsetFile \in UnitTagsets
    /\ tagset = Tagset_load(tagsetFile)
    /\ writers = <<>>
    /\ last = NoCall

NextUnit ==
    \/ \E cats \in DistinctSeqs(LifePaths) : DoMoveToParents(cats)
    \/ \E name \in LifePaths : DoAddToCategory(name)
    \/ \E names \in SUBSET LifePaths : DoSetCategories(names)

SpecUnit == InitUnit /\ [][NextUnit]_vars

\* the path of the parent of the category at path name
ParentPath(name) == IF name = Root THEN Root ELSE join(SubSeq(name, 1, Len(name) - 1))

\* every tag key of the file f is a valid category with a valid parent
AllResolve(f) ==
    \A name \in DOMAIN Get(f, "tags", EmptyDict) :
        /\ Category_init(name, FALSE, World).exc = "none"
        /\ Category_init(ParentPath(name), FALSE, World).exc = "none"

\* C25 (SpecUnit): after move_to_parents() returns on a unit whose tag keys
\* all are valid categories with valid parents, the tag keys of the unit are
\* exactly the parent paths of the keys it had, whatever the order the
\* categories were taken in, also when one of them is the parent of another
\* or the root.
C25_MoveToParents ==
    (last.op = "AudioComponent.move_to_parents" /\ Returned /\ AllResolve(last.tagset0)) =>
        /\ DOMAIN FileTags = {ParentPath(name) : name \in DOMAIN FileTags0}
        /\ DOMAIN tagset.tags = {ParentPath(name) : name \in DOMAIN FileTags0}

====
